---- MODULE Spec2Model ----
(***************************************************************************)
(* A model of log_analyzer.py: main's control flow, the log_parser         *)
(* generator, analyze_log's aggregation loop and count_stats.              *)
(*                                                                         *)
(* Text is modelled character by character: a string is a sequence of      *)
(* one-character strings, so that str.split(" ") and float() are computed  *)
(* as the interpreter computes them.  Elapsed times are exact numbers of   *)
(* tenths of a second (the tokens used have one fractional digit);         *)
(* quotients the code computes in floating point are kept as exact         *)
(* fractions [num, den].                                                   *)
(***************************************************************************)
EXTENDS Integers, Sequences, FiniteSets, TLC

\* ---------------------------------------------------------------- bounds
\* The longest log file read, in lines.
MaxLines == 4
\* The largest REPORT_SIZE a configuration supplies.
MaxReportSize == 2

\* ------------------------------------------------------------- constants
\* log_row[7]: the request-target field (0-based index, as in the source).
URL_INDEX == 7
\* The divisor of count_perc and time_perc.
PERC_DIVISOR == 100

\* ------------------------------------------------------------------ text
SP == " "
NL == "\n"
Digits == {"0", "1", "2", "3", "4", "5", "6", "7", "8", "9"}
Whitespace == {SP, NL}

DigitVal(c) ==
    CASE c = "0" -> 0 [] c = "1" -> 1 [] c = "2" -> 2 [] c = "3" -> 3
      [] c = "4" -> 4 [] c = "5" -> 5 [] c = "6" -> 6 [] c = "7" -> 7
      [] c = "8" -> 8 [] c = "9" -> 9

Last(s) == s[Len(s)]
Front(s) == SubSeq(s, 1, Len(s) - 1)

\* " ".join(tokens)
RECURSIVE JoinSp(_)
JoinSp(tokens) ==
    IF tokens = <<>> THEN <<>>
    ELSE IF Len(tokens) = 1 THEN tokens[1]
    ELSE tokens[1] \o <<SP>> \o JoinSp(Tail(tokens))

\* One line of the file, as next(file) returns it: the text and its newline.
Line(tokens) == JoinSp(tokens) \o <<NL>>

\* str.split(" "): a cut at every single space; adjacent spaces give "".
RECURSIVE SplitAcc(_, _, _)
SplitAcc(s, cur, acc) ==
    IF s = <<>> THEN Append(acc, cur)
    ELSE IF Head(s) = SP THEN SplitAcc(Tail(s), <<>>, Append(acc, cur))
    ELSE SplitAcc(Tail(s), Append(cur, Head(s)), acc)

Split(s) == SplitAcc(s, <<>>, <<>>)

\* str.strip(), which float() applies to its argument.
RECURSIVE LStrip(_)
LStrip(s) ==
    IF s # <<>> /\ Head(s) \in Whitespace THEN LStrip(Tail(s)) ELSE s

RECURSIVE RStrip(_)
RStrip(s) ==
    IF s # <<>> /\ Last(s) \in Whitespace THEN RStrip(Front(s)) ELSE s

Strip(s) == RStrip(LStrip(s))

\* The unsigned decimal literals float() accepts: digits with at most one
\* point and at least one digit.
IsUnsignedDecimal(s) ==
    /\ s # <<>>
    /\ \A i \in 1..Len(s) : s[i] \in Digits \cup {"."}
    /\ Cardinality({i \in 1..Len(s) : s[i] = "."}) <= 1
    /\ \E i \in 1..Len(s) : s[i] \in Digits

Unsigned(s) == IF s # <<>> /\ s[1] \in {"-", "+"} THEN Tail(s) ELSE s

\* float(token) succeeds (otherwise it raises ValueError).
IsFloat(token) == IsUnsignedDecimal(Unsigned(Strip(token)))

RECURSIVE IntOf(_)
IntOf(ds) == IF ds = <<>> THEN 0 ELSE 10 * IntOf(Front(ds)) + DigitVal(Last(ds))

PointAt(s) ==
    IF \E i \in 1..Len(s) : s[i] = "."
    THEN CHOOSE i \in 1..Len(s) : s[i] = "."
    ELSE Len(s) + 1

\* The value of an unsigned literal, in tenths.
TenthsOf(s) ==
    LET p == PointAt(s)
        whole == SubSeq(s, 1, p - 1)
        frac == SubSeq(s, p + 1, Len(s))
    IN  10 * IntOf(whole) + (IF frac = <<>> THEN 0 ELSE DigitVal(frac[1]))

\* float(token), in tenths of a second.
FloatOf(token) ==
    LET s == Strip(token)
    IN  IF s[1] = "-" THEN 0 - TenthsOf(Tail(s)) ELSE TenthsOf(Unsigned(s))

\* ------------------------------------------------------- the log's lines
Dash == <<"-">>
Empty == <<>>
UrlA == <<"/", "a">>
UrlB == <<"/", "b">>
TimeTokens == {<<"0", ".", "1">>, <<"0", ".", "2">>, <<"0", ".", "3">>}

\* The seven fields before the request target in the documented format
\* ($remote_addr, two spaces, $remote_user, $http_x_real_ip, [$time_local],
\* and the request method): the double space leaves an empty field.
Leading == <<Dash, Dash, Empty, Dash, Dash, Dash, Dash>>

WellFormedLine(url, t) == Line(Leading \o <<url, Dash, t>>)

WellFormedLines == {WellFormedLine(u, t) : u \in {UrlA, UrlB}, t \in TimeTokens}

\* A line of three fields.
ShortLine == Line(<<Dash, UrlA, <<"0", ".", "1">>>>)
\* A line whose trailing token is not a number.
NonNumericLine == Line(Leading \o <<UrlA, Dash, Dash>>)
\* A line whose request-target field is empty.
EmptyResourceLine == WellFormedLine(Empty, <<"0", ".", "1">>)

Lines == WellFormedLines \cup {ShortLine, NonNumericLine, EmptyResourceLine}

ReportSizes == 0..MaxReportSize

\* ----------------------------------------------------------------- state
VARIABLES
    pep479,        \* the interpreter turns a StopIteration raised inside a
                   \* generator into RuntimeError (Python 3.7 and later)
    prior_report,  \* a report for the newest log's date existed at start
    pc,            \* main's position
    report_size,   \* REPORT_SIZE from the configuration
    file,          \* the log file handle: "unopened", "open", "closed"
    opens,         \* how many times the handle was opened
    lines_read,    \* the lines next(file) has returned, in order
    at_eof,        \* next(file) has raised StopIteration
    records,       \* the (url, time) pairs log_parser has yielded, in order
    totals,        \* analyze_log's totals
    urls,          \* analyze_log's urls dict, in insertion order
    final_stats,   \* count_stats' result
    report_writes, \* how many times the report file was written
    error          \* the exception that ended main, or "none"

vars == <<pep479, prior_report, pc, report_size, file, opens, lines_read,
          at_eof, records, totals, urls, final_stats, report_writes, error>>

Terminal == {"exit_no_config", "exit_no_log_dir", "exit_no_log",
             "exit_report_exists", "failed", "done"}

Init ==
    /\ pep479 \in BOOLEAN
    /\ prior_report \in BOOLEAN
    /\ pc = "start"
    /\ report_size = 0
    /\ file = "unopened"
    /\ opens = 0
    /\ lines_read = <<>>
    /\ at_eof = FALSE
    /\ records = <<>>
    /\ totals = [total_requests |-> 0, total_time |-> 0]
    /\ urls = <<>>
    /\ final_stats = <<>>
    /\ report_writes = 0
    /\ error = "none"

\* ------------------------------------------------------------ log_parser
\* One pass of the generator's loop body over a line next(file) returned:
\* the exception it raises, or the pair it yields.
ParseLine(line) ==
    LET log_row == Split(line)
    IN  IF Len(log_row) <= URL_INDEX
        THEN [raised |-> "IndexError", request_url |-> <<>>, request_time |-> 0]
        ELSE IF ~IsFloat(Last(log_row))
        THEN [raised |-> "ValueError", request_url |-> <<>>, request_time |-> 0]
        ELSE [raised |-> "none",
              request_url |-> log_row[URL_INDEX + 1],
              request_time |-> FloatOf(Last(log_row))]

\* No with block: the handle stays as it was.
HandleLeftOpen == "open"

\* The handle's state once an exception has left the with block.
WithExit == "closed"

\* What the consumer of the generator sees when next(file) raises
\* StopIteration inside it: the end of the sequence, or RuntimeError.
GeneratorStop(stopIsError) == IF stopIsError THEN "RuntimeError" ELSE "none"

\* ----------------------------------------------------------- analyze_log
\* The position of request_url among the dict's keys, 0 when absent.
KeyIndex(d, request_url) ==
    IF \E i \in 1..Len(d) : d[i].url = request_url
    THEN CHOOSE i \in 1..Len(d) : d[i].url = request_url
    ELSE 0

\* The request is not counted.
AddTimeOnly(t, request_time) ==
    [total_requests |-> t.total_requests,
     total_time |-> t.total_time + request_time]

AddToTotals(t, request_time) ==
    [total_requests |-> t.total_requests + 1,
     total_time |-> t.total_time + request_time]

\* A repeated url is counted and its sample dropped.
ObserveNoAppend(d, request_url, request_time) ==
    LET k == KeyIndex(d, request_url)
    IN  IF k # 0
        THEN [d EXCEPT ![k].count = @ + 1]
        ELSE Append(d, [url |-> request_url,
                        count |-> 1,
                        request_times |-> <<request_time>>])

\* The loop body's update of urls for one record.
Observe(d, request_url, request_time) ==
    LET k == KeyIndex(d, request_url)
    IN  IF k # 0
        THEN [d EXCEPT ![k] = [url |-> request_url,
                               count |-> d[k].count + 1,
                               request_times |-> Append(d[k].request_times,
                                                        request_time)]]
        ELSE Append(d, [url |-> request_url,
                        count |-> 1,
                        request_times |-> <<request_time>>])

\* ----------------------------------------------------------- count_stats
RECURSIVE Sum(_)
Sum(s) == IF s = <<>> THEN 0 ELSE Head(s) + Sum(Tail(s))

Max(s) == CHOOSE x \in {s[i] : i \in 1..Len(s)} :
              \A i \in 1..Len(s) : s[i] <= x

RECURSIVE InsertAsc(_, _)
InsertAsc(sorted, x) ==
    IF sorted = <<>> THEN <<x>>
    ELSE IF Head(sorted) <= x THEN <<Head(sorted)>> \o InsertAsc(Tail(sorted), x)
    ELSE <<x>> \o sorted

RECURSIVE SortedAsc(_)
SortedAsc(s) == IF s = <<>> THEN <<>> ELSE InsertAsc(SortedAsc(Front(s)), Last(s))

\* statistics.median: the middle value, or the mean of the two middle ones.
Median(s) ==
    LET data == SortedAsc(s)
        n == Len(data)
    IN  IF n % 2 = 1
        THEN [num |-> data[(n \div 2) + 1], den |-> 1]
        ELSE [num |-> data[n \div 2] + data[(n \div 2) + 1], den |-> 2]

\* The report entry of one url.
Stats(t, e) ==
    LET time_sum == Sum(e.request_times)
    IN  [url |-> e.url,
         count |-> e.count,
         count_perc |-> [num |-> e.count * t.total_requests, den |-> PERC_DIVISOR],
         time_sum |-> time_sum,
         time_perc |-> [num |-> time_sum * t.total_time, den |-> PERC_DIVISOR],
         time_avg |-> [num |-> time_sum, den |-> Len(e.request_times)],
         time_max |-> Max(e.request_times),
         time_med |-> Median(e.request_times)]

\* x goes after every item whose count is at least its own.
RECURSIVE InsertByCountDesc(_, _)
InsertByCountDesc(sorted, x) ==
    IF sorted = <<>> THEN <<x>>
    ELSE IF Head(sorted).count >= x.count
    THEN <<Head(sorted)>> \o InsertByCountDesc(Tail(sorted), x)
    ELSE <<x>> \o sorted

RECURSIVE ReverseSeq(_)
ReverseSeq(s) == IF s = <<>> THEN <<>> ELSE Append(ReverseSeq(Tail(s)), Head(s))

RECURSIVE SortedByCountAsc(_)
SortedByCountAsc(r) ==
    IF r = <<>> THEN <<>>
    ELSE LET rest == SortedByCountAsc(Front(r))
             x == Last(r)
             k == Cardinality({i \in 1..Len(rest) : rest[i].count <= x.count})
         IN  SubSeq(rest, 1, k) \o <<x>> \o SubSeq(rest, k + 1, Len(rest))


\* sorted(_report, key=count, reverse=True): stable, ties keep their order.
RECURSIVE SortedByCountDesc(_)
SortedByCountDesc(r) ==
    IF r = <<>> THEN <<>>
    ELSE InsertByCountDesc(SortedByCountDesc(Front(r)), Last(r))

\* An ascending sort, reversed: ties come out in reverse order.
ReversedAscending(r) == ReverseSeq(SortedByCountAsc(r))

SortReport(r) == SortedByCountDesc(r)

\* A slice that keeps one item too many.
SliceOneMore(s, n) == SubSeq(s, 1, IF n + 1 > Len(s) THEN Len(s) ELSE n + 1)

\* s[0:n]
Slice(s, n) ==
    LET stop == IF n < 0 THEN (IF Len(s) + n < 0 THEN 0 ELSE Len(s) + n)
                ELSE (IF n > Len(s) THEN Len(s) ELSE n)
    IN  SubSeq(s, 1, stop)

count_stats(t, d, size) ==
    LET _report == [i \in 1..Len(d) |-> Stats(t, d[i])]
    IN  Slice(SortReport(_report), size)

\* ------------------------------------------------------------------ main
\* The check skipped.
ReportNeverExists(present) == FALSE

report_exists(present) == present

\* load_config_file and get_config_params: no usable configuration ends
\* the run with status 1; otherwise REPORT_SIZE is read.
LoadConfig ==
    /\ pc = "start"
    /\ \/ /\ pc' = "exit_no_config"
          /\ UNCHANGED report_size
       \/ /\ \E size \in ReportSizes : report_size' = size
          /\ pc' = "configured"
    /\ UNCHANGED <<pep479, prior_report, file, opens, lines_read, at_eof,
                   records, totals, urls, final_stats, report_writes, error>>

CheckLogDir ==
    /\ pc = "configured"
    /\ \E isdir \in BOOLEAN :
          pc' = IF isdir THEN "log_dir" ELSE "exit_no_log_dir"
    /\ UNCHANGED <<pep479, prior_report, report_size, file, opens, lines_read,
                   at_eof, records, totals, urls, final_stats, report_writes,
                   error>>

FindNewestLog ==
    /\ pc = "log_dir"
    /\ \E found \in BOOLEAN :
          pc' = IF found THEN "newest_log" ELSE "exit_no_log"
    /\ UNCHANGED <<pep479, prior_report, report_size, file, opens, lines_read,
                   at_eof, records, totals, urls, final_stats, report_writes,
                   error>>

\* Lines 212-219 up to the for loop: the generator is created (none of its
\* code runs yet) and analyze_log sets up its empty totals and urls.
CheckReportExists ==
    /\ pc = "newest_log"
    /\ pc' = IF report_exists(prior_report) THEN "exit_report_exists"
             ELSE "analyze"
    /\ UNCHANGED <<pep479, prior_report, report_size, file, opens, lines_read,
                   at_eof, records, totals, urls, final_stats, report_writes,
                   error>>

Opened == IF file = "unopened" THEN opens + 1 ELSE opens

\* One iteration of analyze_log's for loop over a line that parses: the
\* generator (opening the file when first resumed) yields, the body runs.
NextRecord ==
    /\ pc = "analyze"
    /\ Len(lines_read) < MaxLines
    /\ \E line \in Lines :
          LET r == ParseLine(line)
          IN  /\ r.raised = "none"
              /\ lines_read' = Append(lines_read, line)
              /\ records' = Append(records, <<r.request_url, r.request_time>>)
              /\ totals' = AddToTotals(totals, r.request_time)
              /\ urls' = Observe(urls, r.request_url, r.request_time)
    /\ file' = "open"
    /\ opens' = Opened
    /\ UNCHANGED <<pep479, prior_report, pc, report_size, at_eof, final_stats,
                   report_writes, error>>

\* The generator raises on a line; the exception leaves the with block,
\* analyze_log and main, and is logged by the handler around main.
MalformedLine ==
    /\ pc = "analyze"
    /\ Len(lines_read) < MaxLines
    /\ \E line \in Lines :
          LET r == ParseLine(line)
          IN  /\ r.raised # "none"
              /\ lines_read' = Append(lines_read, line)
              /\ error' = r.raised
    /\ file' = WithExit
    /\ opens' = Opened
    /\ pc' = "failed"
    /\ UNCHANGED <<pep479, prior_report, report_size, at_eof, records, totals,
                   urls, final_stats, report_writes>>

\* next(file) raises StopIteration at the end of the file.
EndOfSource ==
    /\ pc = "analyze"
    /\ at_eof' = TRUE
    /\ file' = WithExit
    /\ opens' = Opened
    /\ error' = GeneratorStop(pep479)
    /\ pc' = IF GeneratorStop(pep479) = "none" THEN "analyzed" ELSE "failed"
    /\ UNCHANGED <<pep479, prior_report, report_size, lines_read, records,
                   totals, urls, final_stats, report_writes>>

CountStats ==
    /\ pc = "analyzed"
    /\ final_stats' = count_stats(totals, urls, report_size)
    /\ pc' = "counted"
    /\ UNCHANGED <<pep479, prior_report, report_size, file, opens, lines_read,
                   at_eof, records, totals, urls, report_writes, error>>

CreateReport ==
    /\ pc = "counted"
    /\ report_writes' = report_writes + 1
    /\ pc' = "done"
    /\ UNCHANGED <<pep479, prior_report, report_size, file, opens, lines_read,
                   at_eof, records, totals, urls, final_stats, error>>

Next ==
    \/ LoadConfig
    \/ CheckLogDir
    \/ FindNewestLog
    \/ CheckReportExists
    \/ NextRecord
    \/ MalformedLine
    \/ EndOfSource
    \/ CountStats
    \/ CreateReport

Spec == Init /\ [][Next]_vars

\* ---------------------------------------------------------------------
\* Reference notions, defined on the yielded records alone.
RecordUrls == {records[i][1] : i \in 1..Len(records)}
IndicesOf(u) == {i \in 1..Len(records) : records[i][1] = u}
CountOf(u) == Cardinality(IndicesOf(u))
FirstIndexOf(u) == CHOOSE i \in IndicesOf(u) : \A j \in IndicesOf(u) : i <= j

RECURSIVE SumOver(_)
SumOver(is) ==
    IF is = {} THEN 0
    ELSE LET i == CHOOSE j \in is : TRUE
         IN  records[i][2] + SumOver(is \ {i})

TimeSumOf(u) == SumOver(IndicesOf(u))
TimeMaxOf(u) == CHOOSE x \in {records[i][2] : i \in IndicesOf(u)} :
                    \A i \in IndicesOf(u) : records[i][2] <= x

RECURSIVE SumCounts(_)
SumCounts(d) == IF d = <<>> THEN 0 ELSE Head(d).count + SumCounts(Tail(d))

Keys(d) == {d[i].url : i \in 1..Len(d)}
Ranked == pc \in {"counted", "done"}

\* u ranks before v: a greater count, or the same count and seen earlier.
Precedes(u, v) ==
    \/ CountOf(u) > CountOf(v)
    \/ CountOf(u) = CountOf(v) /\ FirstIndexOf(u) < FirstIndexOf(v)

\* ---------------------------------------------------------------- claims

\* C1: when log_parser reaches the end of the source, the consumer sees the
\* sequence end normally and analyze_log returns; the end of the source
\* never reaches the consumer as an exception.
C1_EndOfSourceStopsCleanly ==
    at_eof => error = "none" /\ pc \in {"analyzed", "counted", "done"}

\* C2: every line either yields a record with a non-empty resource and a
\* numeric time, or fails the extraction with MalformedRecordError; no
\* record with an empty resource is ever yielded.
C2_MalformedLinesRejected ==
    /\ \A i \in 1..Len(records) : records[i][1] # <<>>
    /\ Len(lines_read) > Len(records) => error = "MalformedRecordError"

\* C3: a source with zero records ends the pipeline with an empty report or
\* with EmptyInputError, and in no other way.
C3_EmptySourceOutcome ==
    (at_eof /\ lines_read = <<>> /\ pc \in Terminal) =>
        \/ pc = "done" /\ final_stats = <<>>
        \/ error = "EmptyInputError"

\* C4: a non-empty log of well-formed lines, with a report size of at least
\* the number of distinct resources, runs to completion and reports each
\* resource once, with its number of records, the sum and the maximum of
\* its times, in descending order of count.
C4_EndToEnd ==
    (/\ at_eof
     /\ lines_read # <<>>
     /\ \A i \in 1..Len(lines_read) : lines_read[i] \in WellFormedLines
     /\ report_size >= Cardinality(RecordUrls)
     /\ pc \in Terminal) =>
        /\ pc = "done"
        /\ Len(final_stats) = Cardinality(RecordUrls)
        /\ {final_stats[i].url : i \in 1..Len(final_stats)} = RecordUrls
        /\ \A i \in 1..Len(final_stats) :
              /\ final_stats[i].count = CountOf(final_stats[i].url)
              /\ final_stats[i].time_sum = TimeSumOf(final_stats[i].url)
              /\ final_stats[i].time_max = TimeMaxOf(final_stats[i].url)
        /\ \A i, j \in 1..Len(final_stats) :
              i < j => final_stats[i].count >= final_stats[j].count

\* C5: count conservation.  At every iteration boundary of analyze_log and
\* at its return, the counts in urls add up to total_requests, which is the
\* number of records consumed.
C5_CountConservation ==
    /\ SumCounts(urls) = totals.total_requests
    /\ totals.total_requests = Len(records)

C5_Witness ==
    /\ pc = "analyze"
    /\ Len(records) >= 3
    /\ Len(urls) = 2

\* C6: top-N boundedness.  For a positive report_size N, count_stats returns
\* at most N entries, in non-increasing count order, leaves out no resource
\* with a greater count than one it returns, and returns every resource
\* when there are no more than N.
C6_TopNBounded ==
    (Ranked /\ report_size > 0) =>
        /\ Len(final_stats) <= report_size
        /\ \A i, j \in 1..Len(final_stats) :
              i < j => final_stats[i].count >= final_stats[j].count
        /\ \A i \in 1..Len(final_stats) :
              \E k \in 1..Len(urls) :
                  /\ urls[k].url = final_stats[i].url
                  /\ urls[k].count = final_stats[i].count
        /\ \A k \in 1..Len(urls) :
              urls[k].url \notin Keys(final_stats) =>
                  \A i \in 1..Len(final_stats) :
                      urls[k].count <= final_stats[i].count
        /\ Len(urls) <= report_size => Keys(final_stats) = Keys(urls)

C6_Witness ==
    /\ pc = "counted"
    /\ report_size > 0
    /\ Len(urls) > report_size
    /\ Len(final_stats) = report_size
    /\ \E k \in 1..Len(urls) : urls[k].count >= 2

\* C7: the log file handle is opened once per extraction and is closed on
\* every exit path: at the end of the source and when a line fails to
\* parse.  No terminal state has the handle open.
C7_HandleClosed ==
    /\ opens <= 1
    /\ (file # "unopened") <=> (opens = 1)
    /\ pc \in Terminal => file # "open"
    /\ (at_eof \/ error # "none") => file = "closed"
    /\ pc \in {"analyzed", "counted", "done", "failed"} =>
          file = "closed" /\ opens = 1

C7_Witness ==
    /\ pc = "failed"
    /\ error = "ValueError"
    /\ Len(records) >= 1
    /\ file = "closed"

\* C8: every entry of urls has count = len(request_times) >= 1; an entry is
\* created when its resource is first observed, a later observation adds 1
\* to its count and appends one sample, the other entries are unchanged by
\* the step, and no entry is removed.
C8_EntriesWellFormed ==
    /\ \A k \in 1..Len(urls) :
          /\ urls[k].count = Len(urls[k].request_times)
          /\ urls[k].count >= 1
    /\ \A k, l \in 1..Len(urls) : urls[k].url = urls[l].url => k = l
    /\ Keys(urls) = RecordUrls

C8_StepKeepsEntries ==
    IF records' = records THEN urls' = urls
    ELSE LET u == records'[Len(records')][1]
             t == records'[Len(records')][2]
         IN  /\ records' = Append(records, <<u, t>>)
             /\ IF u \in Keys(urls)
                THEN /\ Len(urls') = Len(urls)
                     /\ \A k \in 1..Len(urls) :
                           IF urls[k].url = u
                           THEN urls'[k] =
                                  [url |-> u,
                                   count |-> urls[k].count + 1,
                                   request_times |->
                                       Append(urls[k].request_times, t)]
                           ELSE urls'[k] = urls[k]
                ELSE urls' = Append(urls, [url |-> u, count |-> 1,
                                           request_times |-> <<t>>])

C8_PerResourceAggregate ==
    [] C8_EntriesWellFormed /\ [][C8_StepKeepsEntries]_vars

C8_Witness ==
    /\ Len(urls) >= 2
    /\ \E k \in 1..Len(urls) : urls[k].count >= 2
    /\ \E k \in 1..Len(urls) : urls[k].count = 1

\* C9: when a report for the newest log's date already exists, the log
\* file is never opened or parsed, analyze_log and count_stats never run
\* and no report is written; parsing and writing happen only after the
\* check has found no report.
C9_ShortCircuit ==
    /\ prior_report =>
          /\ file = "unopened" /\ opens = 0
          /\ lines_read = <<>> /\ records = <<>> /\ ~at_eof
          /\ final_stats = <<>>
          /\ report_writes = 0
          /\ pc \notin {"analyze", "analyzed", "counted", "done", "failed"}
    /\ (opens > 0 \/ lines_read # <<>> \/ report_writes > 0) =>
          pc \in {"analyze", "analyzed", "counted", "done", "failed"}

C9_Witness ==
    /\ prior_report
    /\ pc = "exit_report_exists"

\* C10: among resources with equal count, count_stats' entries are in the
\* order in which analyze_log first observed them, and the same order
\* decides which of them survive the truncation: the ranked urls are a
\* function of the record sequence.
C10_TieBreakByFirstSeen ==
    Ranked =>
        /\ \A i, j \in 1..Len(final_stats) :
              i < j => Precedes(final_stats[i].url, final_stats[j].url)
        /\ \A u \in RecordUrls \ Keys(final_stats) :
              \A i \in 1..Len(final_stats) : Precedes(final_stats[i].url, u)
        /\ Keys(final_stats) \subseteq RecordUrls
        /\ report_size <= Cardinality(RecordUrls) =>
              Len(final_stats) = report_size

C10_Witness ==
    /\ pc = "counted"
    /\ Len(final_stats) = 2
    /\ final_stats[1].count = final_stats[2].count
    /\ \E k \in 1..Len(urls) :
          /\ urls[k].url \notin Keys(final_stats)
          /\ urls[k].count = final_stats[2].count

====
